---- MODULE Spec2Model ----
(***************************************************************************)
(* Model of the link shortener (src/src/main.rs): the key generator        *)
(* format_radix, the links table of db.sqlite behind the process-wide      *)
(* Mutex<Connection> SQLITE, the schema bootstrap of main, and the two     *)
(* request handlers ShortenApi::get_url and ShortenApi::create_short_url.  *)
(* Handlers run on the worker threads of the tokio runtime, so several     *)
(* requests are in flight at once and interleave statement by statement.   *)
(***************************************************************************)
EXTENDS Integers, Sequences, FiniteSets, TLC

\* ------------------------------------------------------------------ bounds
\* Number of request slots (requests in flight at the same time).
NumReqs == 2
\* The wall clock reads TimeBase to TimeBase + MaxTicks milliseconds.
MaxTicks == 1
\* Number of requests the clients send in all.
MaxRequests == 3
\* Number of times the process is stopped and started again.
MaxRestarts == 1
\* format_radix is applied to every x in 0..MaxX ...
MaxX == 1400
\* ... and to every requested radix in 0..MaxRadix.
MaxRadix == 38

\* First clock value: 35 -> "z", 36 -> "10" in base 36.
TimeBase == 35

Reqs == 1..NumReqs
Times == TimeBase..(TimeBase + MaxTicks)
Uris == {"u1", "u2"}
Hosts == {"h"}

\* ------------------------------------------------------------ format_radix
\* The digit alphabet of std::char::from_digit: 0-9 then a-z.
Alphabet ==
  << "0", "1", "2", "3", "4", "5", "6", "7", "8", "9",
     "a", "b", "c", "d", "e", "f", "g", "h", "i", "j",
     "k", "l", "m", "n", "o", "p", "q", "r", "s", "t",
     "u", "v", "w", "x", "y", "z" >>

Min(a, b) == IF a < b THEN a ELSE b
Max(a, b) == IF a > b THEN a ELSE b

\* std::char::from_digit(num, radix): Some(char) when num < radix, else None.
from_digit(num, radix) ==
  IF num < radix THEN Alphabet[num + 1] ELSE "None"

\* radix.max(36).min(2): the two limits exchanged.
ClampRadixExchanged(radix) == Min(Max(radix, 36), 2)

\* radix.min(36).max(2)
ClampRadix(radix) == Max(Min(radix, 36), 2)

Reverse(s) == [i \in 1..Len(s) |-> s[Len(s) + 1 - i]]

\* The loop of format_radix: one digit is pushed per iteration, least
\* significant first, and the loop stops once x is 0 (after the push).
RECURSIVE RadixLoop(_, _, _)
RadixLoop(x, radix, result) ==
  LET m == x % radix
      q == x \div radix
      pushed == Append(result, from_digit(m, radix))
  IN  IF q = 0 THEN pushed ELSE RadixLoop(q, radix, pushed)

\* format_radix returning the digits in the order the loop pushed them.
format_radix_norev(x, radix) ==
  RadixLoop(x, ClampRadix(radix), << >>)

\* format_radix(x, radix): the digits of x (a u128; every value used here is
\* far below 2^128, so no arithmetic wraps) in the clamped radix, reversed to
\* most significant digit first: result.into_iter().rev().collect()
format_radix(x, radix) ==
  Reverse(RadixLoop(x, ClampRadix(radix), << >>))

\* The radix create_short_url passes to format_radix.
KeyRadix == 36

\* A u128 beyond the 32-bit integers of TLC is held as its limbs in
\* base LimbBase, most significant first; the operators below are the same
\* loop as above on that representation.
LimbBase == 1000000

\* x / radix and x % radix by long division over the limbs, carrying the
\* remainder rem of the limbs already divided.
RECURSIVE DivLimbs(_, _, _, _)
DivLimbs(x, radix, rem, quot) ==
  IF x = << >> THEN [q |-> quot, m |-> rem]
  ELSE LET cur == rem * LimbBase + Head(x)
       IN  DivLimbs(Tail(x), radix, cur % radix, Append(quot, cur \div radix))

IsZeroLimbs(x) == \A i \in 1..Len(x) : x[i] = 0

RECURSIVE RadixLoopWide(_, _, _)
RadixLoopWide(x, radix, result) ==
  LET d == DivLimbs(x, radix, 0, << >>)
      pushed == Append(result, from_digit(d.m, radix))
  IN  IF IsZeroLimbs(d.q) THEN pushed ELSE RadixLoopWide(d.q, radix, pushed)

\* format_radix on limbs, returning the digits in the order they were pushed.
format_radix_wide_norev(x, radix) ==
  RadixLoopWide(x, ClampRadix(radix), << >>)

\* format_radix on limbs.
format_radix_wide(x, radix) ==
  Reverse(RadixLoopWide(x, ClampRadix(radix), << >>))

\* --------------------------------------------------------------- the state
Keys == {format_radix(t, KeyRadix) : t \in Times}
\* Path segments a client may ask for: every key, and one that is no key.
Ids == Keys \cup {<< "q" >>}

\* Mutex owner values: no owner, the main thread, or a request slot.
Unlocked == 0
MainThread == 0 - 1

NoUri == ""
NoKey == << >>

VARIABLES
  now,          \* SystemTime::now() in ms since UNIX_EPOCH, as last read
  tableExists,  \* db.sqlite holds the table links
  links,        \* the rows of links: a set of [key, uri]
  mutexHolder,  \* the thread holding the guard of SQLITE
  poisoned,     \* the poison flag of the SQLITE mutex
  pcMain,       \* position of main: "boot", "bootLocked", "serving"
  req,          \* per request slot: the handler's locals and position
  acked,        \* history: the (key, uri) of every create answered with success
  conflicts,    \* history: the (key, uri) of every create ended by KeyConflict
  ioFailed,     \* history: the backing medium failed an insert statement
  started,      \* history: number of requests received so far
  dupAck,       \* history: a success response repeated an already returned key
  restarts,     \* history: number of times the process was started again
  bootRows,     \* history: the rows the data file held when this run started
  fx, fradix, fout, fpc   \* a stand-alone call format_radix(fx, fradix)

vars == << now, tableExists, links, mutexHolder, poisoned, pcMain, req,
           acked, conflicts, ioFailed, started, dupAck, restarts, bootRows,
           fx, fradix, fout, fpc >>
storeVars == << tableExists, links >>
histVars == << acked, conflicts, ioFailed, started, dupAck, restarts,
              bootRows >>
radixVars == << fx, fradix, fout, fpc >>

\* Responses. status is the HTTP status of the response, or "panic" when the
\* handler's thread panicked (an unwrap failed) and no response was built.
NoResp == [status |-> "none", location |-> NoUri, url |-> << >>, error |-> ""]
Redirect(uri) ==
  [status |-> "MOVED_PERMANENTLY", location |-> uri, url |-> << >>, error |-> ""]
NotFound == [status |-> "NOT_FOUND", location |-> NoUri, url |-> << >>, error |-> ""]
Created(url) == [status |-> "OK", location |-> NoUri, url |-> url, error |-> ""]
Panicked(e) == [status |-> "panic", location |-> NoUri, url |-> << >>, error |-> e]

IdleReq ==
  [op |-> "none", pc |-> "idle", id |-> NoKey, uri |-> NoUri, host |-> "",
   key |-> NoKey, rows |-> {}, resp |-> NoResp,
   ackedAtStart |-> NoUri, afterConflict |-> FALSE, conflictedAtStart |-> FALSE,
   rivals |-> 0, locks |-> 0, inserts |-> 0]

ProcessInit ==
  /\ tableExists \in BOOLEAN
  /\ links = {}
  /\ mutexHolder = Unlocked
  /\ poisoned = FALSE
  /\ pcMain = "boot"
  /\ req = [r \in Reqs |-> IdleReq]
  /\ acked = {}
  /\ conflicts = {}
  /\ ioFailed = FALSE
  /\ started = 0
  /\ dupAck = FALSE
  /\ restarts = 0
  /\ bootRows = {}

MainInit == now = TimeBase /\ ProcessInit

RadixOff == fx = 0 /\ fradix = 0 /\ fout = << >> /\ fpc = "off"

Init == MainInit /\ RadixOff

\* ------------------------------------------------------- the SQLITE mutex
\* A lock that is granted whoever holds the guard.
CanAcquireAlways(holder) == holder = holder

\* Mutex::lock returns once no other thread holds the guard.
CanAcquire(holder) == holder = Unlocked

\* sqlite.lock().unwrap() of request r, continuing at position next.
\* On a poisoned mutex lock() returns Err(PoisonError) and unwrap panics; the
\* guard inside the error is dropped at once, the poison flag stays.
AcquireGuard(r, next) ==
  /\ CanAcquire(mutexHolder)
  /\ IF poisoned
       THEN /\ req' = [req EXCEPT ![r].pc = "done",
                                  ![r].resp = Panicked("PoisonError"),
                                  ![r].locks = @ + 1]
            /\ UNCHANGED mutexHolder
       ELSE /\ req' = [req EXCEPT ![r].pc = next, ![r].locks = @ + 1]
            /\ mutexHolder' = r
  /\ UNCHANGED poisoned

\* An unwrap() fails while request r holds the guard: the thread unwinds, the
\* guard is dropped while panicking, which poisons the mutex and unlocks it.
\* locals are the handler's locals at the failing statement.
PanicHoldingGuardWith(r, locals, e) ==
  /\ req' = [req EXCEPT ![r] =
               [locals EXCEPT !.pc = "done", !.resp = Panicked(e)]]
  /\ mutexHolder' = Unlocked
  /\ poisoned' = TRUE

PanicHoldingGuard(r, e) == PanicHoldingGuardWith(r, req[r], e)

\* A return that leaks the guard (as mem::forget(conn) would).
ReturnKeepingGuard(r, resp) ==
  /\ req' = [req EXCEPT ![r].pc = "done", ![r].resp = resp]
  /\ UNCHANGED << mutexHolder, poisoned >>

\* The handler returns: its response is built and the guard is dropped.
ReturnDroppingGuard(r, resp) ==
  /\ req' = [req EXCEPT ![r].pc = "done", ![r].resp = resp]
  /\ mutexHolder' = Unlocked
  /\ UNCHANGED poisoned

\* ------------------------------------------------------------ the table
\* SELECT key, uri FROM links WHERE key = ?
SelectByKey(table, id) == {row \in table : row.key = id}

\* A table declared without PRIMARY KEY rejects no key.
ViolatesNoConstraint(table, key) == FALSE

\* INSERT INTO links (key, uri) VALUES (?1, ?2) is rejected by the PRIMARY KEY
\* constraint when a row with that key exists.
ViolatesPrimaryKey(table, key) == SelectByKey(table, key) # {}

\* The table after an accepted insert.
InsertRow(table, key, uri) == table \cup {[key |-> key, uri |-> uri]}

\* INSERT OR REPLACE: the row of an existing key is overwritten.
ExecuteInsertOrReplace(table, key, uri, ioerr) ==
  [ok |-> TRUE, error |-> "",
   table |-> InsertRow(table \ SelectByKey(table, key), key, uri)]

\* A rejected insert that has already removed the old row of the key.
ExecuteInsertDirty(table, key, uri, ioerr) ==
  IF ioerr
    THEN [ok |-> FALSE, error |-> "StoreUnavailable", table |-> table]
  ELSE IF ViolatesPrimaryKey(table, key)
    THEN [ok |-> FALSE, error |-> "KeyConflict",
          table |-> table \ SelectByKey(table, key)]
  ELSE [ok |-> TRUE, error |-> "", table |-> InsertRow(table, key, uri)]

\* conn.execute("INSERT INTO links (key, uri) VALUES (?1, ?2)", (key, uri)):
\* one autocommitted statement. It either commits the row (Ok) or fails (Err)
\* and leaves the table as it was: when the medium fails it (ioerr: disk full,
\* I/O error), or when the PRIMARY KEY constraint rejects the key.
ExecuteInsert(table, key, uri, ioerr) ==
  IF ioerr
    THEN [ok |-> FALSE, error |-> "StoreUnavailable", table |-> table]
  ELSE IF ViolatesPrimaryKey(table, key)
    THEN [ok |-> FALSE, error |-> "KeyConflict", table |-> table]
  ELSE [ok |-> TRUE, error |-> "", table |-> InsertRow(table, key, uri)]

\* ------------------------------------------------------------------- main
\* main: let con = SQLITE.lock().unwrap();
MainLock ==
  /\ pcMain = "boot"
  /\ CanAcquire(mutexHolder)
  /\ mutexHolder' = MainThread
  /\ pcMain' = "bootLocked"
  /\ UNCHANGED << now, storeVars, poisoned, req, histVars, radixVars >>

\* DROP TABLE IF EXISTS links; CREATE TABLE links (...): a fresh, empty table.
ExecuteDropAndCreateTable(exists, table) ==
  [ok |-> TRUE, exists |-> TRUE, table |-> {}]

\* CREATE TABLE IF NOT EXISTS links (key TEXT PRIMARY KEY, uri TEXT NOT NULL):
\* creates the empty table when the file has none, and otherwise does nothing.
ExecuteCreateTable(exists, table) ==
  IF exists
    THEN [ok |-> TRUE, exists |-> TRUE, table |-> table]
    ELSE [ok |-> TRUE, exists |-> TRUE, table |-> {}]

\* main: con.execute(CREATE TABLE IF NOT EXISTS links (...)).unwrap(), then
\* the guard is dropped and the server starts. An Err makes main panic.
MainCreateTable ==
  /\ pcMain = "bootLocked"
  /\ LET res == ExecuteCreateTable(tableExists, links)
     IN  /\ tableExists' = res.exists
         /\ links' = res.table
         /\ pcMain' = IF res.ok THEN "serving" ELSE "panicked"
         /\ poisoned' = (poisoned \/ ~res.ok)
  /\ mutexHolder' = Unlocked
  /\ bootRows' = links
  /\ UNCHANGED << now, req, acked, conflicts, ioFailed, started, dupAck,
                  restarts, radixVars >>

\* The process ends (ctrl-c, the graceful shutdown giving up the requests in
\* flight after its timeout, or a crash) and is started again on the same
\* db.sqlite: the file keeps its table and rows, SQLITE is a new mutex, and
\* main runs from its beginning.
Restart ==
  /\ restarts < MaxRestarts
  /\ restarts' = restarts + 1
  /\ pcMain' = "boot"
  /\ mutexHolder' = Unlocked
  /\ poisoned' = FALSE
  /\ req' = [r \in Reqs |-> IdleReq]
  /\ UNCHANGED << now, storeVars, acked, conflicts, ioFailed, started, dupAck,
                  bootRows, radixVars >>

\* ---------------------------------------------------------------- get_url
\* A client requests GET /{id}.
StartResolve(r, id) ==
  /\ pcMain = "serving"
  /\ req[r].pc = "idle"
  /\ req' = [req EXCEPT ![r] =
       [IdleReq EXCEPT !.op = "resolve", !.pc = "lock", !.id = id,
          !.ackedAtStart =
             IF \E a \in acked : a[1] = id
               THEN (CHOOSE a \in acked : a[1] = id)[2] ELSE NoUri,
          !.afterConflict = (conflicts # {}),
          !.conflictedAtStart = (\E c \in conflicts : c[1] = id)]]
  /\ started < MaxRequests
  /\ started' = started + 1
  /\ UNCHANGED << now, storeVars, mutexHolder, poisoned, pcMain, acked,
                  conflicts, ioFailed, dupAck, restarts, bootRows, radixVars >>

\* let conn = sqlite.lock().unwrap();
GetUrlLock(r) ==
  /\ req[r].op = "resolve"
  /\ req[r].pc = "lock"
  /\ AcquireGuard(r, "prepare")
  /\ UNCHANGED << now, storeVars, pcMain, histVars, radixVars >>

\* conn.prepare("SELECT ...").unwrap(): fails when the table is missing.
GetUrlPrepare(r) ==
  /\ req[r].op = "resolve"
  /\ req[r].pc = "prepare"
  /\ IF tableExists
       THEN /\ req' = [req EXCEPT ![r].pc = "query"]
            /\ UNCHANGED << mutexHolder, poisoned >>
       ELSE PanicHoldingGuard(r, "NoSuchTable")
  /\ UNCHANGED << now, storeVars, pcMain, histVars, radixVars >>

\* stmt.query([id.0]).unwrap(): binds the parameter.
GetUrlQuery(r) ==
  /\ req[r].op = "resolve"
  /\ req[r].pc = "query"
  /\ req' = [req EXCEPT ![r].pc = "next"]
  /\ UNCHANGED << now, storeVars, mutexHolder, poisoned, pcMain, histVars,
                  radixVars >>

\* A row read that records the key it missed as a row without uri.
GetUrlNextRecordingMiss(r) ==
  /\ req[r].op = "resolve"
  /\ req[r].pc = "next"
  /\ req' = [req EXCEPT ![r].pc = "respond",
                        ![r].rows = SelectByKey(links, req[r].id)]
  /\ links' = IF SelectByKey(links, req[r].id) = {}
                THEN links \cup {[key |-> req[r].id, uri |-> NoUri]}
                ELSE links
  /\ UNCHANGED << now, tableExists, mutexHolder, poisoned, pcMain, histVars,
                  radixVars >>

\* result.next().unwrap(): steps the statement and reads the first row.
GetUrlNext(r) ==
  /\ req[r].op = "resolve"
  /\ req[r].pc = "next"
  /\ req' = [req EXCEPT ![r].pc = "respond",
                        ![r].rows = SelectByKey(links, req[r].id)]
  /\ UNCHANGED << now, storeVars, mutexHolder, poisoned, pcMain, histVars,
                  radixVars >>

\* The response get_url builds from the row it read.
GetUrlResponse(rows) ==
  IF rows # {}
    THEN Redirect((CHOOSE row \in rows : TRUE).uri)
    ELSE NotFound

\* match ... { Some(uri) => 301 with Location, None => 404 } and return.
GetUrlRespond(r) ==
  /\ req[r].op = "resolve"
  /\ req[r].pc = "respond"
  /\ ReturnDroppingGuard(r, GetUrlResponse(req[r].rows))
  /\ UNCHANGED << now, storeVars, pcMain, histVars, radixVars >>

\* ------------------------------------------------------- create_short_url
\* nested_path of the ShortenApi that main constructs.
nested_path == "/"

\* A client posts {url: uri} with the Host header host, and the handler runs
\* up to its lock():
\*   let key = format_radix(SystemTime::now()...as_millis(), 36);
\* The clock reads t, at or after the value it gave last time it was read.
BeginCreate(r, host, uri, key) ==
  /\ pcMain = "serving"
  /\ req[r].pc = "idle"
  /\ started < MaxRequests
  /\ started' = started + 1
  /\ LET others == {q \in Reqs \ {r} : req[q].op = "create" /\ req[q].key = key}
     IN  req' = [q \in Reqs |->
                  IF q = r
                    THEN [IdleReq EXCEPT !.op = "create", !.pc = "lock",
                            !.uri = uri, !.host = host, !.key = key,
                            !.afterConflict = (conflicts # {}),
                            !.rivals = Min(Cardinality(others) +
                                           Cardinality(SelectByKey(links, key)), 2)]
                  ELSE IF q \in others
                    THEN [req[q] EXCEPT !.rivals = Min(@ + 1, 2)]
                  ELSE req[q]]
  /\ UNCHANGED << storeVars, mutexHolder, poisoned, pcMain, acked, conflicts,
                  ioFailed, dupAck, restarts, bootRows, radixVars >>

StartCreate(r, host, uri, t) ==
  /\ t >= now
  /\ now' = t
  /\ BeginCreate(r, host, uri, format_radix(t, KeyRadix))

\* let conn = sqlite.lock().unwrap();
CreateLock(r) ==
  /\ req[r].op = "create"
  /\ req[r].pc = "lock"
  /\ AcquireGuard(r, "insert")
  /\ UNCHANGED << now, storeVars, pcMain, histVars, radixVars >>

\* The effects of an insert statement by request r with outcome res that are
\* the same whatever the handler then does with res.
InsertEffects(r, res) ==
  /\ links' = res.table
  /\ conflicts' =
       IF res.error = "KeyConflict"
         THEN conflicts \cup {<< req[r].key, req[r].uri >>}
         ELSE conflicts
  /\ ioFailed' = (ioFailed \/ res.error = "StoreUnavailable")

\* let _ = conn.execute(...): the Err of the insert is dropped and the
\* handler goes on to its success response.
CreateInsertIgnoringErr(r, ioerr) ==
  /\ req[r].op = "create"
  /\ req[r].pc = "insert"
  /\ tableExists
  /\ InsertEffects(r, ExecuteInsert(links, req[r].key, req[r].uri, ioerr))
  /\ req' = [req EXCEPT ![r].pc = "respond", ![r].inserts = @ + 1]
  /\ UNCHANGED << mutexHolder, poisoned >>
  /\ UNCHANGED << now, tableExists, pcMain, acked, started, dupAck, restarts,
                  bootRows, radixVars >>

\* conn.execute("INSERT INTO links ...", (&key, &input.url)).unwrap()
\* An Err makes unwrap panic while the guard is held.
CreateInsert(r, ioerr) ==
  /\ req[r].op = "create"
  /\ req[r].pc = "insert"
  /\ IF ~tableExists
       THEN /\ PanicHoldingGuard(r, "NoSuchTable")
            /\ UNCHANGED << links, conflicts, ioFailed >>
       ELSE LET res == ExecuteInsert(links, req[r].key, req[r].uri, ioerr)
            IN  /\ InsertEffects(r, res)
                /\ IF res.ok
                     THEN /\ req' = [req EXCEPT ![r].pc = "respond",
                                                ![r].inserts = @ + 1]
                          /\ UNCHANGED << mutexHolder, poisoned >>
                     ELSE PanicHoldingGuardWith(
                            r, [req[r] EXCEPT !.inserts = @ + 1], res.error)
  /\ UNCHANGED << now, tableExists, pcMain, acked, started, dupAck, restarts,
                  bootRows, radixVars >>

\* Json({"url": format!("{}{}{}", host.0, self.nested_path, key)}) and return.
CreateRespond(r) ==
  /\ req[r].op = "create"
  /\ req[r].pc = "respond"
  /\ ReturnDroppingGuard(r, Created(<< req[r].host, nested_path >> \o req[r].key))
  /\ acked' = acked \cup {<< req[r].key, req[r].uri >>}
  /\ dupAck' = (dupAck \/ \E a \in acked : a[1] = req[r].key)
  /\ UNCHANGED << now, storeVars, pcMain, conflicts, ioFailed, started,
                  restarts, bootRows, radixVars >>

\* The response (or the dropped connection) reaches the client; the slot is
\* free for the next request.
Finish(r) ==
  /\ req[r].pc = "done"
  /\ req' = [req EXCEPT ![r] = IdleReq]
  /\ UNCHANGED << now, storeVars, mutexHolder, poisoned, pcMain, histVars,
                  radixVars >>

Next ==
  \/ MainLock
  \/ MainCreateTable
  \/ \E r \in Reqs, id \in Ids : StartResolve(r, id)
  \/ \E r \in Reqs : GetUrlLock(r)
  \/ \E r \in Reqs : GetUrlPrepare(r)
  \/ \E r \in Reqs : GetUrlQuery(r)
  \/ \E r \in Reqs : GetUrlNext(r)
  \/ \E r \in Reqs : GetUrlRespond(r)
  \/ \E r \in Reqs, host \in Hosts, uri \in Uris, t \in Times :
       StartCreate(r, host, uri, t)
  \/ \E r \in Reqs : CreateLock(r)
  \/ \E r \in Reqs, ioerr \in BOOLEAN : CreateInsert(r, ioerr)
  \/ \E r \in Reqs : CreateRespond(r)
  \/ \E r \in Reqs : Finish(r)

Spec == Init /\ [][Next]_vars

\* The steps of the handler serving request r, and its lock() among them.
HandlerLock(r) == GetUrlLock(r) \/ CreateLock(r)

HandlerStep(r) ==
  \/ GetUrlPrepare(r)
  \/ GetUrlQuery(r)
  \/ GetUrlNext(r)
  \/ GetUrlRespond(r)
  \/ \E ioerr \in BOOLEAN : CreateInsert(r, ioerr)
  \/ CreateRespond(r)

\* Fair scheduling: main and every handler that can take a step eventually
\* takes it, and a thread waiting in lock() is not passed over for ever.
\* Clients are under no obligation to send requests.
Fairness ==
  /\ WF_vars(MainLock)
  /\ WF_vars(MainCreateTable)
  /\ \A r \in Reqs : WF_vars(HandlerStep(r)) /\ SF_vars(HandlerLock(r))

SpecFair == Spec /\ Fairness

\* The same program over several runs of the process.
NextRestart == Next \/ Restart

SpecRestart == Init /\ [][NextRestart]_vars

\* --------------------------------------------- format_radix on its own
\* A caller applies format_radix to any x and any requested radix.
\* ------------------------------------------------ the end-to-end example
\* One client posts "https://example.com/a/b" while the clock reads
\* 1 700 000 000 000 ms, and clients ask for three path segments.
ExampleTime == << 1, 700000, 0 >>
ExampleUri == "https://example.com/a/b"
ExampleStatedKey == << "k", "f", "1", "s", "f", "5", "w", "0" >>
ExampleEncodedKey == << "l", "o", "y", "w", "3", "v", "2", "8" >>
DoesNotExist ==
  << "d", "o", "e", "s", "n", "o", "t", "e", "x", "i", "s", "t" >>
ExampleIds == {ExampleStatedKey, ExampleEncodedKey, DoesNotExist}

ExampleInit == now = ExampleTime /\ ProcessInit /\ RadixOff

\* The one create of the example: the handler up to its lock(), the clock
\* reading ExampleTime.
ExampleCreate(r, host) ==
  /\ links = {}
  /\ \A q \in Reqs : req[q].op # "create"
  /\ BeginCreate(r, host, ExampleUri, format_radix_wide(now, KeyRadix))
  /\ UNCHANGED now

NextExample ==
  \/ MainLock
  \/ MainCreateTable
  \/ \E r \in Reqs, host \in Hosts : ExampleCreate(r, host)
  \/ \E r \in Reqs, id \in ExampleIds : StartResolve(r, id)
  \/ \E r \in Reqs : GetUrlLock(r)
  \/ \E r \in Reqs : GetUrlPrepare(r)
  \/ \E r \in Reqs : GetUrlQuery(r)
  \/ \E r \in Reqs : GetUrlNext(r)
  \/ \E r \in Reqs : GetUrlRespond(r)
  \/ \E r \in Reqs : CreateLock(r)
  \/ \E r \in Reqs : CreateInsert(r, FALSE)
  \/ \E r \in Reqs : CreateRespond(r)
  \/ \E r \in Reqs : Finish(r)

SpecExample == ExampleInit /\ [][NextExample]_vars

RadixInit ==
  /\ MainInit
  /\ fx \in 0..MaxX
  /\ fradix \in 0..MaxRadix
  /\ fout = << >>
  /\ fpc = "call"

FormatRadixCall ==
  /\ fpc = "call"
  /\ fout' = format_radix(fx, fradix)
  /\ fpc' = "ret"
  /\ UNCHANGED << now, storeVars, mutexHolder, poisoned, pcMain, req, histVars,
                  fx, fradix >>

NextRadix == FormatRadixCall

SpecRadix == RadixInit /\ [][NextRadix]_vars

\* ================================================================ claims
IsDone(r, op) == req[r].op = op /\ req[r].pc = "done"
Succeeded(r) == req[r].resp.status = "OK"
\* The request's own insert statement was not failed by the backing medium.
StoreServed(r) == req[r].resp.error # "StoreUnavailable"

\* C1: once a create of (key, uri) has been answered with success, every
\* resolve(key) issued afterwards is answered with a 301 whose Location is
\* that uri: never absence, never a failure (the medium itself never failing).
C1_ResolveAfterCreate ==
  \A r \in Reqs :
    (IsDone(r, "resolve") /\ req[r].ackedAtStart # NoUri /\ ~ioFailed)
      => req[r].resp = Redirect(req[r].ackedAtStart)

\* C2: once create(key, uri1) has succeeded, a create of the same key with
\* another uri does not report success and does not overwrite the row, and a
\* resolve(key) issued after that create failed with KeyConflict returns uri1.
C2_ConflictKeepsFirst ==
  /\ \A r \in Reqs : \A a \in acked :
       (IsDone(r, "create") /\ a[1] = req[r].key /\ a[2] # req[r].uri)
         => /\ ~Succeeded(r)
            /\ SelectByKey(links, req[r].key) = {[key |-> a[1], uri |-> a[2]]}
  /\ \A r \in Reqs :
       (IsDone(r, "resolve") /\ req[r].conflictedAtStart
          /\ req[r].ackedAtStart # NoUri)
         => req[r].resp = Redirect(req[r].ackedAtStart)

\* C3: when exactly two creates obtained the same key, which no row held, and
\* the medium failed neither insert, exactly one of them succeeds and the
\* other ends with KeyConflict, and the table holds exactly one row for the
\* key, carrying the uri of the successful request.
C3_SameKeyRace ==
  \A r1, r2 \in Reqs :
    (/\ r1 # r2
     /\ IsDone(r1, "create") /\ IsDone(r2, "create")
     /\ req[r1].key = req[r2].key
     /\ req[r1].rivals = 1 /\ req[r2].rivals = 1
     /\ StoreServed(r1) /\ StoreServed(r2))
      => \E w \in {r1, r2} : \E l \in {r1, r2} \ {w} :
            /\ Succeeded(w)
            /\ req[l].resp = Panicked("KeyConflict")
            /\ SelectByKey(links, req[w].key)
                 = {[key |-> req[w].key, uri |-> req[w].uri]}

\* C4: after a create has failed with KeyConflict, a later create whose key
\* nobody else obtained or stored succeeds (unless the medium fails its
\* insert), and a later resolve is answered with the uri or with absence.
C4_ConflictRecoverable ==
  \A r \in Reqs :
    /\ (IsDone(r, "create") /\ req[r].afterConflict /\ req[r].rivals = 0
          /\ StoreServed(r))
         => Succeeded(r)
    /\ (IsDone(r, "resolve") /\ req[r].afterConflict)
         => req[r].resp.status \in {"MOVED_PERMANENTLY", "NOT_FOUND"}

\* C5: a resolve of a key that no create has stored is answered with 404
\* NOT_FOUND, not with a redirect and not with a failure, whatever rows of
\* other keys the table holds (the medium itself never failing). Rows are
\* never removed, so a key absent when the resolve is done was absent
\* throughout it.
C5_AbsentIsNotFound ==
  \A r \in Reqs :
    (IsDone(r, "resolve") /\ SelectByKey(links, req[r].id) = {} /\ ~ioFailed)
      => req[r].resp = NotFound

\* C6: every create whose key is distinct from the key of every other create
\* and of every stored row succeeds (the medium itself never failing), and
\* afterwards the table maps its key to its own uri.
C6_DistinctKeysAllSucceed ==
  \A r \in Reqs :
    (IsDone(r, "create") /\ req[r].rivals = 0 /\ ~ioFailed)
      => /\ Succeeded(r)
         /\ SelectByKey(links, req[r].key)
              = {[key |-> req[r].key, uri |-> req[r].uri]}

\* C7: links are immutable and permanent: no step, of a successful or a failed
\* operation, changes or removes a row the table holds, and no step gives a
\* stored key a second uri.
C7_LinksImmutable ==
  [][\A row \in links :
        /\ row \in links'
        /\ SelectByKey(links', row.key) = {row}]_vars

\* C7 witness: a create was rejected on a key whose row carries another uri.
C7_Witness ==
  \E r \in Reqs : \E row \in links :
    /\ IsDone(r, "create")
    /\ req[r].resp = Panicked("KeyConflict")
    /\ row.key = req[r].key
    /\ row.uri # req[r].uri

\* Positions at which the next statement of the handler uses the connection.
UsesConnection(r) ==
  req[r].pc \in {"prepare", "query", "next", "insert", "respond"}

\* C8: the connection is used under mutual exclusion: a thread is at a
\* statement on the connection (prepare, query, row read, insert, CREATE
\* TABLE) only while it holds the guard, so at most one operation is.
C8_MutualExclusion ==
  /\ \A r \in Reqs : UsesConnection(r) => mutexHolder = r
  /\ pcMain = "bootLocked" => mutexHolder = MainThread
  /\ Cardinality({r \in Reqs : UsesConnection(r)}) <= 1

\* C8 witness: one request is at its insert while another waits in lock().
C8_Witness ==
  \E r1, r2 \in Reqs :
    /\ req[r1].pc = "insert"
    /\ req[r2].pc = "lock"
    /\ mutexHolder = r1

\* Value of a digit symbol of the alphabet 0-9a-z.
DigitValue(c) == (CHOOSE i \in 1..36 : Alphabet[i] = c) - 1

\* The number a numeral denotes, most significant digit first.
RECURSIVE Decode(_, _)
Decode(s, radix) ==
  IF s = << >> THEN 0
  ELSE Decode(SubSeq(s, 1, Len(s) - 1), radix) * radix + DigitValue(s[Len(s)])

\* C9: decoding format_radix(t, 36) as a base-36 numeral over 0-9a-z gives t
\* back, and format_radix(0, 36) is "0", never the empty string.
C9_RadixRoundTrip ==
  (fpc = "ret" /\ fradix = KeyRadix)
    => /\ fout # << >>
       /\ \A i \in 1..Len(fout) : \E j \in 1..36 : Alphabet[j] = fout[i]
       /\ Decode(fout, KeyRadix) = fx
       /\ (fx = 0 => fout = << "0" >>)

\* C9 witness: a three-digit numeral was produced and decodes to its input.
C9_Witness ==
  /\ fpc = "ret"
  /\ fradix = KeyRadix
  /\ Len(fout) = 3
  /\ Decode(fout, KeyRadix) = fx

\* C10: no partial writes: the insert of a create that fails (KeyConflict or a
\* failure of the medium) leaves the whole table as it was, and the insert of
\* a create that goes on to succeed adds exactly the row (key, uri).
C10_NoPartialWrite ==
  [][\A r \in Reqs :
        (req[r].op = "create" /\ req[r].pc = "insert")
          => /\ req'[r].pc = "done" => links' = links
             /\ req'[r].pc = "respond"
                  => links' = links \cup {[key |-> req[r].key, uri |-> req[r].uri]}
             /\ req'[r].pc = "insert" => links' = links]_vars

\* C10 witness: a create has failed while the table holds a row.
C10_Witness ==
  \E r \in Reqs :
    /\ IsDone(r, "create")
    /\ req[r].resp.error \in {"KeyConflict", "StoreUnavailable"}
    /\ links # {}

\* C11: store failures are never swallowed: a create is answered with success
\* (the url host + nested_path + key) only if the row (key, uri) of exactly
\* its key is in the table; when its insert fails the caller gets a failure;
\* and a request runs its insert at most once.
C11_FailuresNotSwallowed ==
  \A r \in Reqs :
    /\ req[r].inserts <= 1
    /\ (IsDone(r, "create") /\ Succeeded(r))
         => /\ [key |-> req[r].key, uri |-> req[r].uri] \in links
            /\ req[r].resp.url = << req[r].host, nested_path >> \o req[r].key
            /\ req[r].inserts = 1
    /\ (IsDone(r, "create") /\ [key |-> req[r].key, uri |-> req[r].uri] \notin links)
         => req[r].resp.status = "panic"

\* C11 witness: the medium failed the insert of a create, which ended in a
\* failure after that one attempt, its row not written.
C11_Witness ==
  \E r \in Reqs :
    /\ IsDone(r, "create")
    /\ req[r].resp = Panicked("StoreUnavailable")
    /\ req[r].inserts = 1
    /\ SelectByKey(links, req[r].key) = {}

\* C12: keys are unique and not deduplicated by url: the table holds at most
\* one row per key, no success response returns a key that an earlier success
\* response returned, and two acknowledged creates never share a key, whether
\* or not they were given the same url.
C12_KeysUnique ==
  /\ \A row1, row2 \in links : row1.key = row2.key => row1 = row2
  /\ ~dupAck
  /\ \A a1, a2 \in acked : a1[1] = a2[1] => a1 = a2

\* C12 witness: two creates of the same url were both answered with success,
\* under different keys.
C12_Witness ==
  \E a1, a2 \in acked : a1[2] = a2[2] /\ a1[1] # a2[1]

CodePoint(c) == IF DigitValue(c) < 10 THEN 48 + DigitValue(c)
                                      ELSE 97 + (DigitValue(c) - 10)

\* s sorts strictly before t as strings compare: byte by byte, a proper
\* prefix first.
LexLess(s, t) ==
  \/ /\ Len(s) < Len(t)
     /\ \A i \in 1..Len(s) : s[i] = t[i]
  \/ \E i \in 1..Min(Len(s), Len(t)) :
       /\ \A j \in 1..(i - 1) : s[j] = t[j]
       /\ CodePoint(s[i]) < CodePoint(t[i])

\* C14: for timestamps t1 < t2 whose base-36 keys have the same number of
\* digits, the key of t2 sorts lexicographically strictly after the key of t1.
C14_KeyOrdering ==
  (fpc = "ret" /\ fradix = KeyRadix)
    => \A t2 \in (fx + 1)..MaxX :
         Len(format_radix(t2, KeyRadix)) = Len(fout)
           => LexLess(fout, format_radix(t2, KeyRadix))

\* C14 witness: a two-digit key whose last digit is a letter, and a later
\* timestamp whose two-digit key wraps that digit to a numeral and sorts
\* after it.
C14_Witness ==
  /\ fpc = "ret"
  /\ fradix = KeyRadix
  /\ Len(fout) = 2
  /\ DigitValue(fout[2]) >= 10
  /\ \E t2 \in (fx + 1)..MaxX :
       /\ Len(format_radix(t2, KeyRadix)) = 2
       /\ DigitValue(format_radix(t2, KeyRadix)[2]) < 10
       /\ LexLess(fout, format_radix(t2, KeyRadix))

\* C16: format_radix(x, r) is the numeral of x in radix min(max(r, 2), 36):
\* every symbol is a digit of that radix from 0-9a-z (no digit conversion
\* failed), the numeral denotes x, it has no leading zero unless x = 0, r < 2
\* gives the base-2 numeral and r > 36 the base-36 numeral.
C16_RadixClamped ==
  fpc = "ret"
    => LET clamped == Min(Max(fradix, 2), 36)
       IN  /\ fout # << >>
           /\ \A i \in 1..Len(fout) :
                \E j \in 1..clamped : Alphabet[j] = fout[i]
           /\ Decode(fout, clamped) = fx
           /\ (fx # 0 => fout[1] # "0")
           /\ (fx = 0 => fout = << "0" >>)
           /\ (fradix < 2 => Decode(fout, 2) = fx)
           /\ (fradix > 36 => Decode(fout, 36) = fx)

\* C16 witness: a radix above 36 was asked for and the result is a base-36
\* numeral of several digits, one of them a letter.
C16_Witness ==
  /\ fpc = "ret"
  /\ fradix > 36
  /\ Len(fout) >= 2
  /\ \E i \in 1..Len(fout) : DigitValue(fout[i]) >= 10
  /\ Decode(fout, 36) = fx

\* C15 as stated: the create of the example yields the key "kf1sf5w0", a
\* resolve of the key the create returned gives the url back, and
\* resolve("doesnotexist") is answered with absence.
C15_ExampleAsStated ==
  \A r \in Reqs :
    /\ IsDone(r, "create")
         => /\ req[r].key = ExampleStatedKey
            /\ req[r].resp =
                 Created(<< req[r].host, nested_path >> \o ExampleStatedKey)
    /\ (IsDone(r, "resolve") /\ req[r].ackedAtStart # NoUri)
         => (req[r].id = ExampleStatedKey /\ req[r].resp = Redirect(ExampleUri))
    /\ (IsDone(r, "resolve") /\ req[r].id = DoesNotExist)
         => req[r].resp = NotFound

\* C15 amended: the create of the example yields the key "loyw3v28", the
\* base-36 numeral of 1 700 000 000 000; a resolve of "loyw3v28" issued after
\* the create was answered gives the url back, and resolve("doesnotexist")
\* is answered with absence.
C15_ExampleEncodedKey ==
  \A r \in Reqs :
    /\ IsDone(r, "create")
         => /\ req[r].key = ExampleEncodedKey
            /\ req[r].resp =
                 Created(<< req[r].host, nested_path >> \o ExampleEncodedKey)
    /\ (IsDone(r, "resolve") /\ req[r].ackedAtStart # NoUri)
         => (req[r].id = ExampleEncodedKey /\ req[r].resp = Redirect(ExampleUri))
    /\ (IsDone(r, "resolve") /\ req[r].id = DoesNotExist)
         => req[r].resp = NotFound

\* C15 witness: after the create of the example was answered, a resolve of
\* "loyw3v28" was answered with the url and a resolve of "doesnotexist" with
\* absence.
C15_Witness ==
  /\ acked = {<< ExampleEncodedKey, ExampleUri >>}
  /\ \E r1, r2 \in Reqs :
       /\ IsDone(r1, "resolve")
       /\ req[r1].id = ExampleEncodedKey
       /\ req[r1].ackedAtStart = ExampleUri
       /\ req[r1].resp = Redirect(ExampleUri)
       /\ IsDone(r2, "resolve")
       /\ req[r2].id = DoesNotExist
       /\ req[r2].resp = NotFound

\* C18: resolve is read-only: no step of a resolve request, whether it finds
\* the key or not and whether it returns or panics, changes the links table
\* (its rows or its existence).
C18_ResolveReadOnly ==
  [][\A r \in Reqs :
        (req[r].op = "resolve" /\ req'[r] # req[r])
          => (links' = links /\ tableExists' = tableExists)]_vars

\* C18 witness: a resolve of a key the table does not hold was answered with
\* absence while the table holds other rows, and a resolve of a key it holds
\* was answered with the uri.
C18_Witness ==
  \E r1, r2 \in Reqs :
    /\ IsDone(r1, "resolve")
    /\ req[r1].resp = NotFound
    /\ SelectByKey(links, req[r1].id) = {}
    /\ IsDone(r2, "resolve")
    /\ req[r2].resp.status = "MOVED_PERMANENTLY"
    /\ SelectByKey(links, req[r2].id) # {}

\* A request is being served: received and not yet answered.
InFlight(r) == req[r].pc \notin {"idle", "done"}

====
